---- MODULE Spec2Model ----
(***************************************************************************)
(* EasyTra: the location-aware conversational session of App.tsx, with the *)
(* input form (InputArea.tsx), the answering-service call                  *)
(* (geminiService.ts) and the single-map selection (ChatMessage.tsx).      *)
(*                                                                         *)
(* Every handler of the program runs to completion on the browser's event  *)
(* loop.  `event` holds the event the loop is about to dispatch; `view`    *)
(* holds the values of the last committed render, which are the values the *)
(* handlers' closures read (messages, isLoading, preferences,              *)
(* userLocation).  State set from a user event is committed before the     *)
(* next event is dispatched; state set from a promise continuation or a    *)
(* geolocation callback is committed by a later Render step.               *)
(*                                                                         *)
(* Optional (nullable / undefined) values are sequences of length 0 or 1.  *)
(* Texts are sequences of characters.  Message ids (uuid) and Date         *)
(* timestamps of messages are never read by the program and are left out.  *)
(***************************************************************************)
EXTENDS Integers, Sequences, FiniteSets, TLC

VARIABLES
    messages,        \* App: useState<ChatMessage[]>
    isLoading,       \* App: useState(false)
    preferences,     \* App: useState<UserPreferences>
    userLocation,    \* App: useState<{lat,lng} | null>
    lastLocationRef, \* App: useRef<{lat,lng,timestamp} | null>
    input,           \* InputArea: useState('')
    view,            \* the last committed render of App
    calls,           \* the answering-service calls that have not completed
    fallbacks,       \* outstanding getCurrentPosition requests
    event,           \* the event being dispatched, if any
    clock            \* Date.now()

vars == <<messages, isLoading, preferences, userLocation, lastLocationRef,
          input, view, calls, fallbacks, event, clock>>

---------------------------------------------------------------------------
(* Bounds of the model *)

MaxTurns == 2       \* submits the user makes
MaxTicks == 3       \* advances of the clock
MaxFallbacks == 2   \* fallback requests outstanding at once
MaxChunks == 4      \* length of a grounding-chunk list (SpecCite)
MaxComputations == 2  \* requests built in a row (SpecInstruction)

(* Program constants *)

JitterMeters == 20
FreshnessMs == 60000

None == <<>>
Some(x) == <<x>>

---------------------------------------------------------------------------
(* Texts *)

Whitespace == {" ", "\n"}

RECURSIVE TrimStart(_)
TrimStart(s) ==
    IF s # <<>> /\ Head(s) \in Whitespace THEN TrimStart(Tail(s)) ELSE s

RECURSIVE TrimEnd(_)
TrimEnd(s) ==
    IF s # <<>> /\ s[Len(s)] \in Whitespace
    THEN TrimEnd(SubSeq(s, 1, Len(s) - 1))
    ELSE s

\* String.prototype.trim
Trim(s) == TrimEnd(TrimStart(s))

\* What the user may type into the textarea.
Inputs == { <<>>, <<" ">>, <<" ", "\n">>, <<"a">>, <<" ", "b", " ">> }

WelcomeText == <<"Hi there! I'm EasyTra!">>
ApologyText ==
    <<"I'm having trouble accessing the network right now. Please try again.">>
ServiceErrorText ==
    <<"I'm having trouble connecting to the transit network right now. Please try again in a moment.">>

---------------------------------------------------------------------------
(* types.ts *)

RoutePreference == {"FASTEST", "LEAST_CROWDED", "LOW_WALKING", "FEWEST_TRANSFERS"}

WebChunk(u, t) == [web |-> Some([uri |-> u, title |-> t]), maps |-> None]
MapsChunk(u, t) == [web |-> None, maps |-> Some([uri |-> u, title |-> t])]

\* The grounding chunks the service may return.
ChunkPool ==
    { WebChunk("a", "A"), WebChunk("b", "B"),
      MapsChunk("m1", "M1"), MapsChunk("m2", "M2"), MapsChunk("", "M0") }

ChunkLists == UNION { [1..n -> ChunkPool] : n \in 0..MaxChunks }

\* A ChatMessage; isError and groundingChunks are optional fields.
Message(role, text, isError, chunks) ==
    [role |-> role, text |-> text, isError |-> isError, groundingChunks |-> chunks]

WelcomeMessage == Message("model", WelcomeText, FALSE, None)

---------------------------------------------------------------------------
(* services/geminiService.ts *)

GetSystemInstructionWithTime(prefs, location) ==
    [ goal |-> prefs.routePreference,
      accessibility |-> IF prefs.accessibilityRequired
                        THEN "Must be wheelchair accessible/step-free."
                        ELSE "None.",
      locationContext |-> IF location # None
                          THEN Some([lat |-> location[1].lat, lng |-> location[1].lng,
                                     at |-> clock])
                          ELSE None,
      optimization |-> prefs.routePreference ]

\* getSystemInstruction: the template's parts that vary, in template order.
GetSystemInstruction(prefs, location) ==
    [ goal |-> prefs.routePreference,
      accessibility |-> IF prefs.accessibilityRequired
                        THEN "Must be wheelchair accessible/step-free."
                        ELSE "None.",
      locationContext |-> IF location # None
                          THEN Some([lat |-> location[1].lat, lng |-> location[1].lng])
                          ELSE None,
      optimization |-> prefs.routePreference ]

ValidHistoryUnfiltered(history) == history

\* const validHistory = history.filter(m => !m.isError)
ValidHistory(history) == SelectSeq(history, LAMBDA m : ~m.isError)

\* validHistory.map(m => ({role, parts: [{text}]}))
HistoryParts(history) ==
    [i \in 1..Len(history) |-> [role |-> history[i].role, text |-> history[i].text]]

ToolConfig(location) ==
    IF location # None
    THEN Some([latitude |-> location[1].lat, longitude |-> location[1].lng])
    ELSE None

\* sendMessageToGemini up to its await: the request handed to the service.
SendMessageToGemini(history, newMessage, prefs, location) ==
    [ history |-> HistoryParts(ValidHistory(history)),
      message |-> newMessage,
      systemInstruction |-> GetSystemInstruction(prefs, location),
      toolConfig |-> ToolConfig(location),
      outcome |-> None ]

\* What chat.sendMessage may settle with: a result (text, optional grounding
\* chunks) or a rejection with some detail.
ServiceChunks ==
    { None,
      Some(<<WebChunk("a", "A"), MapsChunk("m1", "M1"),
             WebChunk("b", "B"), MapsChunk("m2", "M2")>>) }

SdkResult(text, chunks) == [ok |-> TRUE, text |-> text, groundingChunks |-> chunks]
SdkFailure(detail) == [ok |-> FALSE, text |-> <<detail>>, groundingChunks |-> None]

SdkOutcomes(chunkSets) ==
    { SdkResult(<<"r">>, c) : c \in chunkSets }
        \cup { SdkFailure(d) : d \in {"network", "quota"} }

\* sendMessageToGemini after its await: the value it returns, or the Error
\* it throws in place of whatever the service failed with.
GeminiSettled(outcome) ==
    IF outcome.ok
    THEN [ok |-> TRUE, text |-> outcome.text, groundingChunks |-> outcome.groundingChunks]
    ELSE [ok |-> FALSE, text |-> ServiceErrorText, groundingChunks |-> None]

---------------------------------------------------------------------------
(* components/ChatMessage.tsx *)

HasMapsUri(c) == c.maps # None /\ c.maps[1].uri # ""

\* message.groundingChunks?.filter(c => c.maps?.uri) || []
MapChunks(message) ==
    IF message.groundingChunks = None
    THEN <<>>
    ELSE SelectSeq(message.groundingChunks[1], HasMapsUri)

PrimaryMapChunkLast(message) ==
    IF Len(MapChunks(message)) > 0
    THEN Some(MapChunks(message)[Len(MapChunks(message))])
    ELSE None

\* mapChunks.length > 0 ? mapChunks[0] : null
PrimaryMapChunk(message) ==
    IF Len(MapChunks(message)) > 0 THEN Some(MapChunks(message)[1]) ELSE None

---------------------------------------------------------------------------
(* App.tsx: the chat *)

UserMessage(text) == Message("user", text, FALSE, None)

BotMessageWithoutChunks(response) == Message("model", response.text, FALSE, None)

BotMessage(response) == Message("model", response.text, FALSE, response.groundingChunks)

ErrorMessageWithDetail(error) ==
    Message("model", error.text, TRUE, error.groundingChunks)

ErrorMessage(error) == Message("model", ApologyText, TRUE, None)

SubmitRejectedNotWhileLoading(text, loading) == Trim(text) = <<>>

SubmitRejectedNotWhenBlank(text, loading) == loading

\* InputArea.handleSubmit: if (!input.trim() || isLoading) return;
SubmitRejected(text, loading) == Trim(text) = <<>> \/ loading

LoadingNotSetOnSend == FALSE

\* setIsLoading(true) when the query is issued
LoadingOnSend == TRUE

LoadingKeptOnSettle == TRUE

\* finally { setIsLoading(false) }
LoadingOnSettle == FALSE

PrependMessage(prev, msg) == <<msg>> \o prev

\* setMessages(prev => [...prev, msg])
AppendMessage(prev, msg) == Append(prev, msg)

CurrentView ==
    [ messages |-> messages, isLoading |-> isLoading,
      preferences |-> preferences, userLocation |-> userLocation ]

RemoveAt(s, i) == SubSeq(s, 1, i - 1) \o SubSeq(s, i + 1, Len(s))

\* A user event arrives only when the loop is free to dispatch it.
Idle == event = None

Ev(type, arg) == Some([type |-> type, arg |-> arg])

\* textarea onChange.  The disabled attribute of the textarea is
\* presentation: the text may change whatever isLoading is.
SetInput(text) ==
    /\ Idle
    /\ text # input
    /\ input' = text
    /\ UNCHANGED <<messages, isLoading, preferences, userLocation,
                   lastLocationRef, view, calls, fallbacks, event, clock>>

\* The form's submit event, or Enter in the textarea.
PressSubmit ==
    /\ Idle
    /\ Len(messages) < 1 + 2 * MaxTurns
    /\ event' = Ev("submit", None)
    /\ UNCHANGED <<messages, isLoading, preferences, userLocation,
                   lastLocationRef, input, view, calls, fallbacks, clock>>

\* InputArea.handleSubmit, and App.handleSendMessage up to its await.
\* The state it sets is committed before the next event.
HandleSubmit ==
    /\ event # None
    /\ event[1].type = "submit"
    /\ event' = None
    /\ IF SubmitRejected(input, view.isLoading)
       THEN UNCHANGED <<messages, isLoading, input, calls, view>>
       ELSE /\ messages' = AppendMessage(messages, UserMessage(input))
            /\ isLoading' = LoadingOnSend
            /\ calls' = Append(calls,
                   SendMessageToGemini(view.messages, input,
                                       view.preferences, view.userLocation))
            /\ input' = <<>>
            /\ view' = [view EXCEPT !.messages = messages',
                                    !.isLoading = isLoading']
    /\ UNCHANGED <<preferences, userLocation, lastLocationRef, fallbacks, clock>>

\* chat.sendMessage settles.
ServiceSettles(i, outcome) ==
    /\ i \in 1..Len(calls)
    /\ calls[i].outcome = None
    /\ calls' = [calls EXCEPT ![i].outcome = Some(outcome)]
    /\ UNCHANGED <<messages, isLoading, preferences, userLocation,
                   lastLocationRef, input, view, fallbacks, event, clock>>

\* sendMessageToGemini and handleSendMessage after their awaits.
Continuation(i) ==
    /\ i \in 1..Len(calls)
    /\ calls[i].outcome # None
    /\ LET settled == GeminiSettled(calls[i].outcome[1])
       IN  messages' = AppendMessage(messages,
               IF settled.ok THEN BotMessage(settled) ELSE ErrorMessage(settled))
    /\ isLoading' = LoadingOnSettle
    /\ calls' = RemoveAt(calls, i)
    /\ UNCHANGED <<preferences, userLocation, lastLocationRef, input, view,
                   fallbacks, event, clock>>

\* React commits the pending state: the component functions run again.
Render ==
    /\ view # CurrentView
    /\ view' = CurrentView
    /\ UNCHANGED <<messages, isLoading, preferences, userLocation,
                   lastLocationRef, input, calls, fallbacks, event, clock>>

---------------------------------------------------------------------------
(* components/SettingsPanel.tsx *)

\* onUpdate({...preferences, routePreference: goal})
HandleGoalChange(goal) ==
    /\ Idle
    /\ goal # view.preferences.routePreference
    /\ preferences' = [view.preferences EXCEPT !.routePreference = goal]
    /\ view' = [view EXCEPT !.preferences = preferences']
    /\ UNCHANGED <<messages, isLoading, userLocation, lastLocationRef, input,
                   calls, fallbacks, event, clock>>

\* onUpdate({...preferences, accessibilityRequired: !accessibilityRequired})
ToggleAccessibility ==
    /\ Idle
    /\ preferences' = [view.preferences EXCEPT
                          !.accessibilityRequired = ~view.preferences.accessibilityRequired]
    /\ view' = [view EXCEPT !.preferences = preferences']
    /\ UNCHANGED <<messages, isLoading, userLocation, lastLocationRef, input,
                   calls, fallbacks, event, clock>>

\* onUpdate({...preferences, useCurrentLocation: value}): App hands
\* setPreferences to the panel, and the location effect is written for a
\* change of this field (its dependency list and its cleanup).  The panel
\* as written has no control that calls it, so it is no part of PrefNext;
\* SessionNext adds it, as a superset of the program's behaviours.
SetUseCurrentLocation(value) ==
    /\ Idle
    /\ value # view.preferences.useCurrentLocation
    /\ preferences' = [view.preferences EXCEPT !.useCurrentLocation = value]
    /\ view' = [view EXCEPT !.preferences = preferences']
    /\ UNCHANGED <<messages, isLoading, userLocation, lastLocationRef, input,
                   calls, fallbacks, event, clock>>

---------------------------------------------------------------------------
(* App.tsx: the location watch *)

\* Coordinates are degrees times 10^7.  The positions the location source
\* may report: a reference point on the equator, the points 1798 and 1799
\* ten-millionths of a degree north of it, and a distant point (60N, 180E).
Coordinates ==
    { [latitude |-> 0, longitude |-> 0],
      [latitude |-> 1798, longitude |-> 0],
      [latitude |-> 1799, longitude |-> 0],
      [latitude |-> 600000000, longitude |-> 1800000000] }

NaN == [nan |-> TRUE, cm |-> 0]
Meters(cm) == [nan |-> FALSE, cm |-> cm]

\* getDistanceFromLatLonInMeters evaluated in IEEE doubles on Coordinates:
\* <<lat1, lon1, lat2, lon2, result>>, the result in centimetres rounded up,
\* or NaN where a > 1 makes Math.sqrt(1 - a) NaN.  With lat1 # lat2 and
\* lon1 # lon2 the second term of a is cos(lat1) * cos(lat1) * sin^2(dLon/2).
DistanceTable ==
    { <<0, 0, 1798, 0, Meters(2000)>>,
      <<0, 0, 1799, 0, Meters(2001)>>,
      <<0, 0, 600000000, 1800000000, NaN>>,
      <<1798, 0, 0, 0, Meters(2000)>>,
      <<1798, 0, 1799, 0, Meters(2)>>,
      <<1798, 0, 600000000, 1800000000, NaN>>,
      <<1799, 0, 0, 0, Meters(2001)>>,
      <<1799, 0, 1798, 0, Meters(2)>>,
      <<1799, 0, 600000000, 1800000000, NaN>>,
      <<600000000, 1800000000, 0, 0, Meters(1000754340)>>,
      <<600000000, 1800000000, 1798, 0, Meters(1000752609)>>,
      <<600000000, 1800000000, 1799, 0, Meters(1000752608)>> }

GetDistanceFromLatLonInMeters(lat1, lon1, lat2, lon2) ==
    IF lat1 = lat2 /\ lon1 = lon2
    THEN Meters(0)
    ELSE (CHOOSE row \in DistanceTable :
              /\ row[1] = lat1 /\ row[2] = lon1
              /\ row[3] = lat2 /\ row[4] = lon2)[5]

\* dist > meters, false when dist is NaN
Exceeds(dist, meters) == ~dist.nan /\ dist.cm > meters * 100

ShouldUpdateAtFreshness(last, latitude, longitude, now) ==
    IF last = None
    THEN TRUE
    ELSE \/ Exceeds(GetDistanceFromLatLonInMeters(
                        last[1].lat, last[1].lng, latitude, longitude),
                    JitterMeters)
         \/ now - last[1].timestamp >= FreshnessMs

\* The jitter filter of the watch's success callback: shouldUpdate.
ShouldUpdate(last, latitude, longitude, now) ==
    IF last = None
    THEN TRUE
    ELSE \/ Exceeds(GetDistanceFromLatLonInMeters(
                        last[1].lat, last[1].lng, latitude, longitude),
                    JitterMeters)
         \/ now - last[1].timestamp > FreshnessMs

\* if (!lastLocationRef.current && err.code === err.TIMEOUT)
TriesFallback(last, code) == last = None /\ code = "TIMEOUT"

ErrorCodes == {"PERMISSION_DENIED", "POSITION_UNAVAILABLE", "TIMEOUT"}

\* Ticks of the clock: one millisecond, or the freshness interval.
TickSteps == {1, FreshnessMs}
NumTicks(c) == (c \div FreshnessMs) + (c % FreshnessMs)

Tick(step) ==
    /\ NumTicks(clock) < MaxTicks
    /\ clock' = clock + step
    /\ UNCHANGED <<messages, isLoading, preferences, userLocation,
                   lastLocationRef, input, view, calls, fallbacks, event>>

\* The location effect of the last committed render holds a watch exactly
\* when that render's preferences.useCurrentLocation is true; its cleanup
\* clears the watch and leaves lastLocationRef alone.
Watching == view.preferences.useCurrentLocation

\* The watch reports a position.
WatchPosition(coords) ==
    /\ Idle
    /\ Watching
    /\ event' = Ev("position", Some(coords))
    /\ UNCHANGED <<messages, isLoading, preferences, userLocation,
                   lastLocationRef, input, view, calls, fallbacks, clock>>

\* The watch reports an error.
WatchError(code) ==
    /\ Idle
    /\ Watching
    /\ fallbacks < MaxFallbacks
    /\ event' = Ev("error", Some(code))
    /\ UNCHANGED <<messages, isLoading, preferences, userLocation,
                   lastLocationRef, input, view, calls, fallbacks, clock>>

\* const success = (position) => { ... }
Success ==
    /\ event # None
    /\ event[1].type = "position"
    /\ event' = None
    /\ LET latitude == event[1].arg[1].latitude
           longitude == event[1].arg[1].longitude
           now == clock
       IN  IF ShouldUpdate(lastLocationRef, latitude, longitude, now)
           THEN /\ lastLocationRef' =
                       Some([lat |-> latitude, lng |-> longitude, timestamp |-> now])
                /\ userLocation' = Some([lat |-> latitude, lng |-> longitude])
           ELSE UNCHANGED <<lastLocationRef, userLocation>>
    /\ UNCHANGED <<messages, isLoading, preferences, input, view, calls,
                   fallbacks, clock>>

ErrorClearsLocation ==
    /\ event # None
    /\ event[1].type = "error"
    /\ event' = None
    /\ fallbacks' = IF TriesFallback(lastLocationRef, event[1].arg[1])
                    THEN fallbacks + 1
                    ELSE fallbacks
    /\ lastLocationRef' = None
    /\ userLocation' = None
    /\ UNCHANGED <<messages, isLoading, preferences, input, view, calls, clock>>

\* const error = (err) => { ... }
Error ==
    /\ event # None
    /\ event[1].type = "error"
    /\ event' = None
    /\ fallbacks' = IF TriesFallback(lastLocationRef, event[1].arg[1])
                    THEN fallbacks + 1
                    ELSE fallbacks
    /\ UNCHANGED <<messages, isLoading, preferences, userLocation,
                   lastLocationRef, input, view, calls, clock>>

\* A fallback getCurrentPosition request completes with a position.
FallbackPosition(coords) ==
    /\ Idle
    /\ fallbacks > 0
    /\ fallbacks' = fallbacks - 1
    /\ event' = Ev("fallbackPosition", Some(coords))
    /\ UNCHANGED <<messages, isLoading, preferences, userLocation,
                   lastLocationRef, input, view, calls, clock>>

\* A fallback getCurrentPosition request fails.
FallbackError(code) ==
    /\ Idle
    /\ fallbacks > 0
    /\ fallbacks' = fallbacks - 1
    /\ event' = Ev("fallbackError", Some(code))
    /\ UNCHANGED <<messages, isLoading, preferences, userLocation,
                   lastLocationRef, input, view, calls, clock>>

\* (pos) => { lastLocationRef.current = ...; setUserLocation(...) }
FallbackSuccess ==
    /\ event # None
    /\ event[1].type = "fallbackPosition"
    /\ event' = None
    /\ LET pos == event[1].arg[1]
       IN  /\ lastLocationRef' = Some([lat |-> pos.latitude, lng |-> pos.longitude,
                                       timestamp |-> clock])
           /\ userLocation' = Some([lat |-> pos.latitude, lng |-> pos.longitude])
    /\ UNCHANGED <<messages, isLoading, preferences, input, view, calls,
                   fallbacks, clock>>

FallbackFailedSurfaced ==
    /\ event # None
    /\ event[1].type = "fallbackError"
    /\ event' = None
    /\ messages' = AppendMessage(messages, Message("model", ApologyText, TRUE, None))
    /\ UNCHANGED <<isLoading, preferences, userLocation,
                   lastLocationRef, input, view, calls, fallbacks, clock>>

\* (e) => console.error("Fallback location failed:", e.message)
FallbackFailed ==
    /\ event # None
    /\ event[1].type = "fallbackError"
    /\ event' = None
    /\ UNCHANGED <<messages, isLoading, preferences, userLocation,
                   lastLocationRef, input, view, calls, fallbacks, clock>>

---------------------------------------------------------------------------
(* Specifications *)

\* The state after construction and mount: the welcome message, no query
\* in flight, the default preferences, no location, the watch subscribed.
Init ==
    /\ messages = <<WelcomeMessage>>
    /\ isLoading = FALSE
    /\ preferences = [routePreference |-> "FASTEST",
                      accessibilityRequired |-> FALSE,
                      useCurrentLocation |-> TRUE]
    /\ userLocation = None
    /\ lastLocationRef = None
    /\ input = <<>>
    /\ view = CurrentView
    /\ calls = <<>>
    /\ fallbacks = 0
    /\ event = None
    /\ clock = 0

ChatNext ==
    \/ \E text \in Inputs : SetInput(text)
    \/ PressSubmit
    \/ HandleSubmit
    \/ \E i \in 1..Len(calls) : \E o \in SdkOutcomes(ServiceChunks) : ServiceSettles(i, o)
    \/ \E i \in 1..Len(calls) : Continuation(i)
    \/ Render

GeoNext ==
    \/ \E step \in TickSteps : Tick(step)
    \/ \E c \in Coordinates : WatchPosition(c)
    \/ \E code \in ErrorCodes : WatchError(code)
    \/ Success
    \/ Error
    \/ \E c \in Coordinates : FallbackPosition(c)
    \/ \E code \in ErrorCodes : FallbackError(code)
    \/ FallbackSuccess
    \/ FallbackFailed
    \/ Render

PrefNext ==
    \/ \E goal \in RoutePreference : HandleGoalChange(goal)
    \/ ToggleAccessibility

Next == ChatNext \/ GeoNext \/ PrefNext

\* The chat alone.
SpecChat == Init /\ [][ChatNext]_vars

\* The chat alone, every call settling and every settled call's
\* continuation running: chat.sendMessage returns or throws, and the
\* event loop runs the continuation of a settled promise.
SettlesNext ==
    \E i \in 1..Len(calls) : \E o \in SdkOutcomes(ServiceChunks) : ServiceSettles(i, o)
ContinuesNext == \E i \in 1..Len(calls) : Continuation(i)
SpecChatFair ==
    /\ SpecChat
    /\ WF_vars(SettlesNext)
    /\ WF_vars(ContinuesNext)

\* The location watch alone.
SpecGeo == Init /\ [][GeoNext]_vars

\* The whole session.
Spec == Init /\ [][Next]_vars

\* The whole session on fewer inputs: one text, a result without chunks
\* or one failure, two positions 1799 ten-millionths of a degree apart
\* (just over twenty metres), every error code, two route goals, and the location preference switched off
\* and on.  The clock stands still, so a fix is accepted on distance or
\* as the first one.
SessionInputs == { <<"a">> }
SessionOutcomes == { SdkResult(<<"r">>, None), SdkFailure("network") }
SessionCoordinates ==
    { [latitude |-> 0, longitude |-> 0], [latitude |-> 1799, longitude |-> 0] }
SessionErrorCodes == ErrorCodes
SessionGoals == {"FASTEST", "LEAST_CROWDED"}

SessionNext ==
    \/ \E text \in SessionInputs : SetInput(text)
    \/ PressSubmit
    \/ HandleSubmit
    \/ \E i \in 1..Len(calls) : \E o \in SessionOutcomes : ServiceSettles(i, o)
    \/ \E i \in 1..Len(calls) : Continuation(i)
    \/ Render
    \/ \E c \in SessionCoordinates : WatchPosition(c)
    \/ \E code \in SessionErrorCodes : WatchError(code)
    \/ Success
    \/ Error
    \/ \E c \in SessionCoordinates : FallbackPosition(c)
    \/ \E code \in SessionErrorCodes : FallbackError(code)
    \/ FallbackSuccess
    \/ FallbackFailed
    \/ \E goal \in SessionGoals : HandleGoalChange(goal)
    \/ ToggleAccessibility
    \/ \E value \in BOOLEAN : SetUseCurrentLocation(value)

SpecSession == Init /\ [][SessionNext]_vars

---------------------------------------------------------------------------
(* Properties of the chat *)

Last(s) == s[Len(s)]

\* The steps of a query, recognised by what they do to `calls`.
Issues == Len(calls') = Len(calls) + 1
Completes == Len(calls) = 1 /\ calls' = <<>>
CompletesOk == Completes /\ calls[1].outcome # None /\ calls[1].outcome[1].ok
CompletesFailed == Completes /\ calls[1].outcome # None /\ ~calls[1].outcome[1].ok

\* handleSubmit dispatches the pending submit event.
Submits == event # None /\ event[1].type = "submit" /\ event' = None

\* A query grows the conversation by its user message when it is issued
\* and by nothing else until it completes.
GrowsByUserMessage ==
    /\ Issues => /\ messages' = Append(messages, UserMessage(input))
                 /\ Last(calls').message = input
    /\ (calls # <<>> /\ ~Completes) => messages' = messages
    /\ Completes => /\ Last(messages) = UserMessage(calls[1].message)
                    /\ Len(messages') = Len(messages) + 1

\* C1: at most one answering-service call is in flight at any time, and a
\* submit dispatched while loading is true starts no call and appends
\* nothing.
C1_SingleFlight ==
    [][ /\ Len(calls') <= 1
        /\ (Submits /\ isLoading) => /\ calls' = calls
                                     /\ messages' = messages
                                     /\ isLoading' = isLoading ]_vars

\* A submit with non-blank text is dispatched while a call is in flight.
C1_Witness ==
    /\ event # None /\ event[1].type = "submit"
    /\ Trim(input) # <<>>
    /\ isLoading
    /\ Len(calls) = 1

\* C2: loading is true whenever a call has not yet returned; it becomes
\* true exactly when a query is issued and becomes false only in the step
\* that receives the settled outcome of the outstanding query.
C2_LoadingSpansCall ==
    [][ /\ calls' # <<>> => isLoading'
        /\ (~isLoading /\ isLoading') <=> Issues
        /\ (isLoading /\ ~isLoading') =>
               /\ Completes
               /\ calls[1].outcome # None ]_vars

\* A call is outstanding, settled or not, and loading is true.
C2_Witness == calls # <<>> /\ calls[1].outcome # None /\ isLoading

\* C3: a submit with non-blank text whose call succeeds leaves the
\* conversation as it was before the submit, followed by the user message
\* with the submitted text and then a non-error model message with the
\* response's text and citations; loading is false.
C3_SuccessAppendsTwo ==
    [][ /\ GrowsByUserMessage
        /\ Issues => Trim(input) # <<>>
        /\ CompletesOk =>
               /\ messages' = Append(messages,
                      Message("model", calls[1].outcome[1].text, FALSE,
                              calls[1].outcome[1].groundingChunks))
               /\ ~isLoading' ]_vars

\* A query has completed with a model message that carries citations.
C3_Witness ==
    /\ calls = <<>>
    /\ ~isLoading
    /\ Len(messages) = 3
    /\ messages[2].role = "user"
    /\ messages[3].role = "model"
    /\ ~messages[3].isError
    /\ messages[3].groundingChunks # None

\* C4: a submit whose call fails leaves the conversation grown by the user
\* message and one model message with isError = true and the fixed
\* apology, whatever the failure was; no call is outstanding (no retry) and
\* loading is false; no message with isError = true carries citations.
C4_FailureAppendsError ==
    [][ /\ GrowsByUserMessage
        /\ CompletesFailed =>
               /\ messages' = Append(messages, Message("model", ApologyText, TRUE, None))
               /\ calls' = <<>>
               /\ ~isLoading'
        /\ \A i \in 1..Len(messages') :
               messages'[i].isError => messages'[i].groundingChunks = None ]_vars

\* A query has failed and its error message is in the conversation.
C4_Witness ==
    /\ calls = <<>>
    /\ ~isLoading
    /\ Len(messages) = 3
    /\ messages[2].role = "user"
    /\ messages[3].isError

\* C5: a submit with empty or whitespace-only text changes nothing: no
\* message is appended, loading is unchanged and no call is made.
C5_BlankSubmitNoOp ==
    [][ (Submits /\ Trim(input) = <<>>) =>
            UNCHANGED <<messages, isLoading, calls, input, view>> ]_vars

\* A submit is dispatched with whitespace-only text while idle.
C5_Witness ==
    /\ event # None /\ event[1].type = "submit"
    /\ input # <<>>
    /\ Trim(input) = <<>>
    /\ ~isLoading

\* The role and text of the non-error messages, in order.
RECURSIVE NonErrorTurns(_)
NonErrorTurns(ms) ==
    IF ms = <<>>
    THEN <<>>
    ELSE (IF Head(ms).isError
          THEN <<>>
          ELSE <<[role |-> Head(ms).role, text |-> Head(ms).text]>>)
         \o NonErrorTurns(Tail(ms))

\* C6: the history a submit passes to the service is the non-error
\* messages that were in the conversation before the new user message was
\* appended, in order; the new text is the live input and is not part of
\* the history.
C6_HistoryExcludesErrors ==
    [][ Issues =>
            /\ Last(calls').history = NonErrorTurns(messages)
            /\ Last(calls').message = input
            /\ messages' = Append(messages, UserMessage(input)) ]_vars

\* A call is in flight whose history leaves out an earlier error message.
C6_Witness ==
    /\ calls # <<>>
    /\ \E i \in 1..(Len(messages) - 1) : messages[i].isError
    /\ Len(calls[1].history) = Len(messages) - 2

\* C13: loading, once set by a submit, is eventually false again when every
\* call returns or fails; the step that completes a call, on success and
\* on failure, leaves loading false; and loading is never true with no
\* call outstanding.
C13_LoadingCleared ==
    /\ isLoading ~> ~isLoading
    /\ [][ (CompletesOk \/ CompletesFailed) => ~isLoading' ]_vars
    /\ [](isLoading => calls # <<>>)

\* Loading has been set and cleared twice, once by a call that failed and
\* once by a call that succeeded.
C13_Witness ==
    /\ ~isLoading
    /\ calls = <<>>
    /\ Len(messages) = 5
    /\ messages[3].isError
    /\ ~messages[5].isError

---------------------------------------------------------------------------
(* Properties of the location watch *)

\* The success callback of the watch dispatches the pending position.
Delivers == event # None /\ event[1].type = "position" /\ event' = None

\* The error callback of the watch dispatches the pending error.
Reports == event # None /\ event[1].type = "error" /\ event' = None

\* The great-circle (haversine) distance between two of Coordinates, in
\* centimetres rounded up: <<latitude, latitude, longitude difference, cm>>,
\* symmetric in the two points.
GreatCircleTable ==
    { <<0, 1798, 0, 2000>>,
      <<0, 1799, 0, 2001>>,
      <<1798, 1799, 0, 2>>,
      <<0, 600000000, 1800000000, 1334339120>>,
      <<1798, 600000000, 1800000000, 1334337121>>,
      <<1799, 600000000, 1800000000, 1334337120>> }

GreatCircleCm(lat1, lon1, lat2, lon2) ==
    IF lat1 = lat2 /\ lon1 = lon2
    THEN 0
    ELSE (CHOOSE row \in GreatCircleTable :
              /\ {row[1], row[2]} = {lat1, lat2}
              /\ row[3] \in {lon1 - lon2, lon2 - lon1})[4]

\* C7: the filter accepts a fix unconditionally when no accepted position
\* exists; otherwise it accepts exactly when the distance to the last
\* accepted position exceeds 20 m or more than 60,000 ms have passed since
\* the last accepted position was recorded.
C7_FilterDecision ==
    [][ Delivers =>
            LET fix == event[1].arg[1]
                accepted == lastLocationRef' =
                    Some([lat |-> fix.latitude, lng |-> fix.longitude,
                          timestamp |-> clock])
                rejected == lastLocationRef' = lastLocationRef
            IN  IF \/ lastLocationRef = None
                   \/ GreatCircleCm(lastLocationRef[1].lat, lastLocationRef[1].lng,
                                    fix.latitude, fix.longitude) > JitterMeters * 100
                   \/ clock - lastLocationRef[1].timestamp > FreshnessMs
                THEN accepted
                ELSE rejected ]_vars

\* C8: once a position is accepted, a fix with the same coordinates that
\* arrives within 60,000 ms of it is rejected and leaves the accepted
\* position (coordinates and timestamp) and the published user location
\* unchanged.
C8_DuplicatesRejected ==
    [][ ( /\ Delivers
          /\ lastLocationRef # None
          /\ event[1].arg[1].latitude = lastLocationRef[1].lat
          /\ event[1].arg[1].longitude = lastLocationRef[1].lng
          /\ clock - lastLocationRef[1].timestamp <= FreshnessMs )
        => UNCHANGED <<lastLocationRef, userLocation>> ]_vars

\* A fix with the accepted coordinates is delivered exactly 60,000 ms after
\* the accepted one.
C8_Witness ==
    /\ event # None /\ event[1].type = "position"
    /\ lastLocationRef # None
    /\ event[1].arg[1].latitude = lastLocationRef[1].lat
    /\ event[1].arg[1].longitude = lastLocationRef[1].lng
    /\ clock - lastLocationRef[1].timestamp = FreshnessMs

\* C9: on a location error a fallback request is issued exactly when the
\* error is a timeout and no accepted position exists; it is issued only
\* when no other fallback request is outstanding; a failing fallback
\* leaves the location unset.
C9_FallbackOnce ==
    [][ /\ Reports =>
               /\ (fallbacks' = fallbacks + 1) <=>
                      (event[1].arg[1] = "TIMEOUT" /\ lastLocationRef = None)
               /\ fallbacks' \in {fallbacks, fallbacks + 1}
               /\ fallbacks' > fallbacks => fallbacks = 0
        /\ (event # None /\ event[1].type = "fallbackError" /\ event' = None)
               => UNCHANGED <<lastLocationRef, userLocation>> ]_vars

\* C14: every change of the last accepted location comes from the jitter
\* filter accepting a delivered fix (the first fix, one more than twenty
\* metres away, or one more than sixty seconds later), whether the fix
\* comes from the watch or from a fallback request, and the cell then
\* holds that fix.
C14_OnlyFilterAccepts ==
    [][ lastLocationRef' # lastLocationRef =>
          /\ event # None
          /\ event[1].type \in {"position", "fallbackPosition"}
          /\ ShouldUpdate(lastLocationRef, event[1].arg[1].latitude,
                          event[1].arg[1].longitude, clock)
          /\ lastLocationRef' = Some([lat |-> event[1].arg[1].latitude,
                                      lng |-> event[1].arg[1].longitude,
                                      timestamp |-> clock]) ]_vars

---------------------------------------------------------------------------
(* Properties of the citations *)

\* The state after one submit, the call in flight; the service may answer
\* with any list of grounding chunks.
InitCite ==
    /\ messages = <<WelcomeMessage, UserMessage(<<"a">>)>>
    /\ isLoading = TRUE
    /\ preferences = [routePreference |-> "FASTEST",
                      accessibilityRequired |-> FALSE,
                      useCurrentLocation |-> TRUE]
    /\ userLocation = None
    /\ lastLocationRef = None
    /\ input = <<>>
    /\ view = CurrentView
    /\ calls = <<SendMessageToGemini(<<WelcomeMessage>>, <<"a">>, preferences, None)>>
    /\ fallbacks = 0
    /\ event = None
    /\ clock = 0

AnyChunks == {None} \cup { Some(l) : l \in ChunkLists }

CiteNext ==
    \/ \E i \in 1..Len(calls) : \E o \in SdkOutcomes(AnyChunks) : ServiceSettles(i, o)
    \/ \E i \in 1..Len(calls) : Continuation(i)
    \/ Render

SpecCite == InitCite /\ [][CiteNext]_vars

IsWebKind(c) == c.web # None
IsMapKind(c) == c.maps # None

\* All web-kind citations and the first map-kind citation, in source order.
RECURSIVE Reconciled(_, _)
Reconciled(raw, mapSeen) ==
    IF raw = <<>>
    THEN <<>>
    ELSE IF IsMapKind(Head(raw))
         THEN (IF mapSeen THEN <<>> ELSE <<Head(raw)>>) \o Reconciled(Tail(raw), TRUE)
         ELSE (IF IsWebKind(Head(raw)) THEN <<Head(raw)>> ELSE <<>>)
              \o Reconciled(Tail(raw), mapSeen)

\* The first citation of the list that has a map uri, if any.
RECURSIVE FirstMapWithUri(_)
FirstMapWithUri(raw) ==
    IF raw = <<>>
    THEN None
    ELSE IF Head(raw).maps # None /\ Head(raw).maps[1].uri # ""
         THEN Some(Head(raw))
         ELSE FirstMapWithUri(Tail(raw))

ListOf(chunks) == IF chunks = None THEN <<>> ELSE chunks[1]

\* C10 as stated: the citations kept for a model message are the web-kind
\* citations of the service's list and its first map-kind citation, every
\* later map-kind citation dropped.
C10_KeptCitationsReconciled ==
    [][ CompletesOk =>
            ListOf(Last(messages').groundingChunks) =
                Reconciled(ListOf(calls[1].outcome[1].groundingChunks), FALSE) ]_vars

\* C10 amended: the model message keeps the service's citation list
\* unchanged; the one map selected from it is the first citation in source
\* order that has a map uri, and no later map citation is selected.
C10_FirstMapSelected ==
    [][ CompletesOk =>
            /\ Last(messages').groundingChunks = calls[1].outcome[1].groundingChunks
            /\ PrimaryMapChunk(Last(messages')) =
                   FirstMapWithUri(ListOf(calls[1].outcome[1].groundingChunks)) ]_vars

\* A model message keeps [web A, map M1, web B, map M2] and M1 is selected.
C10_Witness ==
    /\ calls = <<>>
    /\ Last(messages).groundingChunks =
           Some(<<WebChunk("a", "A"), MapsChunk("m1", "M1"),
                  WebChunk("b", "B"), MapsChunk("m2", "M2")>>)
    /\ PrimaryMapChunk(Last(messages)) = Some(MapsChunk("m1", "M1"))

---------------------------------------------------------------------------
(* Properties of the instruction context *)

\* Conversations a request may be built in: the welcome alone, and one
\* answered turn, with a response or with the apology.
InstructionHistories ==
    { <<WelcomeMessage>>,
      <<WelcomeMessage, UserMessage(<<"a">>), BotMessage(SdkResult(<<"r">>, None))>>,
      <<WelcomeMessage, UserMessage(<<"a">>), ErrorMessage(SdkFailure("network"))>>,
      <<WelcomeMessage, UserMessage(<<"b">>), BotMessage(SdkResult(<<"r">>, None)),
        UserMessage(<<"a">>), BotMessage(SdkResult(<<"s">>, None))>> }

\* Any preferences the panel can set and any location, held from the
\* start; a text is typed.
InitInstruction ==
    /\ messages \in InstructionHistories
    /\ isLoading = FALSE
    /\ preferences \in [routePreference : RoutePreference,
                        accessibilityRequired : BOOLEAN,
                        useCurrentLocation : {TRUE}]
    /\ lastLocationRef \in
           {None} \cup { Some([lat |-> c.latitude, lng |-> c.longitude, timestamp |-> 0]) :
                            c \in SessionCoordinates }
    /\ userLocation = IF lastLocationRef = None
                      THEN None
                      ELSE Some([lat |-> lastLocationRef[1].lat,
                                 lng |-> lastLocationRef[1].lng])
    /\ input = <<"a">>
    /\ view = CurrentView
    /\ calls = <<>>
    /\ fallbacks = 0
    /\ event = None
    /\ clock = 0

\* sendMessageToGemini(messages, text, preferences, userLocation) builds a
\* request; the requests built are kept side by side.
BuildRequest ==
    /\ Len(calls) < MaxComputations
    /\ calls' = Append(calls, SendMessageToGemini(view.messages, input,
                                                  view.preferences, view.userLocation))
    /\ UNCHANGED <<messages, isLoading, preferences, userLocation,
                   lastLocationRef, input, view, fallbacks, event, clock>>

\* Between two requests the conversation is another one.
ChangeHistory(history) ==
    /\ history # messages
    /\ messages' = history
    /\ view' = [view EXCEPT !.messages = history]
    /\ UNCHANGED <<isLoading, preferences, userLocation, lastLocationRef,
                   input, calls, fallbacks, event, clock>>

\* Between two requests the loading flag is another one.  (The program
\* builds a request only while it is false; here it is an input like the
\* others.)
ChangeLoading ==
    /\ isLoading' = ~isLoading
    /\ view' = [view EXCEPT !.isLoading = isLoading']
    /\ UNCHANGED <<messages, preferences, userLocation, lastLocationRef,
                   input, calls, fallbacks, event, clock>>

InstructionNext ==
    \/ BuildRequest
    \/ \E history \in InstructionHistories : ChangeHistory(history)
    \/ ChangeLoading
    \/ \E step \in TickSteps : Tick(step)

\* getSystemInstruction applied again and again under one choice of
\* preferences and location while everything else varies.
SpecInstruction == InitInstruction /\ [][InstructionNext]_vars

---------------------------------------------------------------------------
(* Properties of the session *)

\* A location event is pending, or is being handled.
LocationEvents == {"position", "error", "fallbackPosition", "fallbackError"}
LocationPending == event # None /\ event[1].type \in LocationEvents

\* C12: the conversation is append-only: every step leaves it as it was or
\* adds one message at its end, so no message is ever removed, moved or
\* changed, whatever the interleaving of submits, service responses and
\* location events.
C12_AppendOnly ==
    [][ \/ messages' = messages
        \/ /\ Len(messages') = Len(messages) + 1
           /\ SubSeq(messages', 1, Len(messages)) = messages ]_vars

\* Two turns have been answered, one of them with an error, a location is
\* held and a location event is pending.
C12_Witness ==
    /\ Len(messages) = 5
    /\ messages[3].isError # messages[5].isError
    /\ userLocation # None
    /\ LocationPending

\* A location callback runs: the pending location event is dispatched.
HandlesLocation == LocationPending /\ event' = None

\* C15: no location callback changes the conversation or the loading flag:
\* an accepted fix, a rejected fix, a location error of any kind and a
\* failed fallback each leave the message list and loading as they were.
C15_LocationFrame ==
    [][ HandlesLocation => /\ messages' = messages
                           /\ isLoading' = isLoading ]_vars

\* A fallback has failed and its callback is about to run while a query
\* of the second turn is in flight.
C15_Witness ==
    /\ event # None
    /\ event[1].type = "fallbackError"
    /\ isLoading
    /\ calls # <<>>
    /\ Len(messages) = 4

\* C16: a location, once held, is never absent again: no step clears the
\* last accepted position, the published user location or the location
\* of the committed render, and every query issued from a render that
\* has a location carries it, in the tool configuration and in the
\* instruction.
C16_LocationKept ==
    [][ /\ lastLocationRef # None => lastLocationRef' # None
        /\ userLocation # None => userLocation' # None
        /\ view.userLocation # None => view'.userLocation # None
        /\ (Issues /\ view.userLocation # None) =>
               /\ Last(calls').toolConfig =
                      Some([latitude |-> view.userLocation[1].lat,
                            longitude |-> view.userLocation[1].lng])
               /\ Last(calls').systemInstruction.locationContext =
                      Some(view.userLocation[1]) ]_vars

\* After a failed query and a change of the route goal, a second query is
\* in flight with the location, and the watch has just reported an error.
C16_Witness ==
    /\ Len(messages) = 4
    /\ messages[3].isError
    /\ preferences.routePreference # "FASTEST"
    /\ calls # <<>>
    /\ calls[1].toolConfig # None
    /\ lastLocationRef # None
    /\ event # None
    /\ event[1].type = "error"

====
